---- MODULE Spec2Model ----
(***************************************************************************)
(* A model of browser.py: URL.parse and the request() exchange over a      *)
(* socket.  Text is a sequence of one-character strings, bytes are a       *)
(* sequence of integers 0..255.                                            *)
(***************************************************************************)
EXTENDS Integers, Sequences, FiniteSets, TLC

VARIABLES
    given,      \* the components the input URL was assembled from
    url,        \* request(url): the input text
    resp,       \* the components the peer's reply was assembled from
    wire,       \* the bytes the peer delivers before closing the connection
    pc,         \* position of request() in its body
    parsed,     \* the URL record of line 92, or None
    s,          \* the socket of line 93
    sent,       \* the buffers handed to s.send, in order
    rpos,       \* bytes of wire consumed through the reader of line 105
    io,         \* the stream operations performed, in order
    status,     \* line 107
    explanation,\* line 107
    headers,    \* line 110
    gunzip,     \* whether gzip.decompress was called (line 120)
    body,       \* line 120 / 122
    result,     \* the returned (headers, body), or None
    error,      \* the exception that ended the call, or None
    display_list, \* Browser.display_list
    scroll,     \* Browser.scroll
    canvas,     \* the items on Browser.canvas, in creation order
    page,       \* Browser.load: what request() gave, or None before any load
    loaded_text, \* Browser.load: the local text of line 183
    last_op,    \* the Browser method that ran last
    redrawn     \* whether that method called draw()

requestVars == <<given, url, resp, wire, pc, parsed, s, sent, rpos, io, status,
                 explanation, headers, gunzip, body, result, error>>

browserVars ==
    <<display_list, scroll, canvas, page, loaded_text, last_op, redrawn>>

vars == <<requestVars, browserVars>>

None == [none |-> TRUE]

(***************************************************************************)
(* Characters and bytes                                                    *)
(***************************************************************************)
Printable ==
    <<" ","!","\"","#","$","%","&","'","(",")","*","+",",","-",".","/",
      "0","1","2","3","4","5","6","7","8","9",":",";","<","=",">","?","@",
      "A","B","C","D","E","F","G","H","I","J","K","L","M","N","O","P","Q",
      "R","S","T","U","V","W","X","Y","Z","[","\\","]","^","_","GRAVE",
      "a","b","c","d","e","f","g","h","i","j","k","l","m","n","o","p","q",
      "r","s","t","u","v","w","x","y","z","{","|","}","~">>

\* The one non-ASCII character of the model, U+00E9, two bytes in UTF-8.
EAcute == "U+00E9"

Ord(c) ==
    IF c = "\t" THEN 9
    ELSE IF c = "\n" THEN 10
    ELSE IF c = "\r" THEN 13
    ELSE 31 + (CHOOSE i \in 1..Len(Printable) : Printable[i] = c)

Chr(b) ==
    IF b = 9 THEN "\t"
    ELSE IF b = 10 THEN "\n"
    ELSE IF b = 13 THEN "\r"
    ELSE Printable[b - 31]

IsAsciiByte(b) == b \in {9, 10, 13} \cup (32..126)

EncodeChar(c) == IF c = EAcute THEN <<195, 169>> ELSE <<Ord(c)>>

\* str.encode("utf8"): the bytes of each character, in order.  The text is
\* encoded half by half, which keeps the evaluation shallow on a long page.
RECURSIVE EncodeUtf8(_)
EncodeUtf8(text) ==
    IF text = <<>> THEN <<>>
    ELSE IF Len(text) = 1 THEN EncodeChar(text[1])
    ELSE LET mid == Len(text) \div 2
         IN  EncodeUtf8(SubSeq(text, 1, mid))
             \o EncodeUtf8(SubSeq(text, mid + 1, Len(text)))

\* bytes.decode("utf8"): [ok, text]; a byte sequence that is not UTF-8 fails,
\* and text is then what was decoded before the offending byte.  The bytes
\* are decoded half by half, never cutting between a lead byte and the byte
\* after it.
RECURSIVE DecodeUtf8(_)
DecodeUtf8(bytes) ==
    IF bytes = <<>> THEN [ok |-> TRUE, text |-> <<>>]
    ELSE IF Len(bytes) = 1
    THEN IF IsAsciiByte(bytes[1])
         THEN [ok |-> TRUE, text |-> <<Chr(bytes[1])>>]
         ELSE [ok |-> FALSE, text |-> <<>>]
    ELSE IF Len(bytes) = 2 /\ bytes[1] = 195
    THEN IF bytes[2] = 169
         THEN [ok |-> TRUE, text |-> <<EAcute>>]
         ELSE [ok |-> FALSE, text |-> <<>>]
    ELSE LET mid   == (Len(bytes) + 1) \div 2
             cut   == IF bytes[mid] = 195 THEN mid - 1 ELSE mid
             left  == DecodeUtf8(SubSeq(bytes, 1, cut))
             right == DecodeUtf8(SubSeq(bytes, cut + 1, Len(bytes)))
         IN  IF ~left.ok THEN left
             ELSE [ok |-> right.ok, text |-> left.text \o right.text]

(***************************************************************************)
(* str methods                                                             *)
(***************************************************************************)
\* str.find: the least index at which sep occurs in t, 0 when it does not.
Find(t, sep) ==
    LET hits == {i \in 1..(Len(t) - Len(sep) + 1) :
                    SubSeq(t, i, i + Len(sep) - 1) = sep}
    IN  IF hits = {} THEN 0 ELSE CHOOSE i \in hits : \A j \in hits : i <= j

Contains(t, sep) == Find(t, sep) # 0

\* str.split(sep, maxsplit): the list of parts.
RECURSIVE Split(_, _, _)
Split(t, sep, maxsplit) ==
    LET i == Find(t, sep)
    IN  IF maxsplit = 0 \/ i = 0 THEN <<t>>
        ELSE <<SubSeq(t, 1, i - 1)>>
             \o Split(SubSeq(t, i + Len(sep), Len(t)), sep, maxsplit - 1)

Whitespace == {" ", "\t", "\n", "\r"}

RECURSIVE LStrip(_)
LStrip(t) ==
    IF t # <<>> /\ Head(t) \in Whitespace THEN LStrip(Tail(t)) ELSE t

RECURSIVE RStrip(_)
RStrip(t) ==
    IF t # <<>> /\ t[Len(t)] \in Whitespace
    THEN RStrip(SubSeq(t, 1, Len(t) - 1)) ELSE t

\* str.strip()
Strip(t) == RStrip(LStrip(t))

LowerChar(c) ==
    IF c # EAcute /\ Ord(c) >= 65 /\ Ord(c) <= 90 THEN Chr(Ord(c) + 32) ELSE c

\* str.lower()
Lower(t) == [i \in 1..Len(t) |-> LowerChar(t[i])]

Digits == {"0","1","2","3","4","5","6","7","8","9"}

RECURSIVE DigitsValue(_)
DigitsValue(t) ==
    IF t = <<>> THEN 0
    ELSE 10 * DigitsValue(SubSeq(t, 1, Len(t) - 1)) + (Ord(t[Len(t)]) - 48)

\* int(text): surrounding whitespace is skipped, one sign is taken, single
\* underscores may separate digits; anything else is a ValueError.
PyInt(t) ==
    LET u      == Strip(t)
        signed == u # <<>> /\ Head(u) \in {"+", "-"}
        mag    == IF signed THEN Tail(u) ELSE u
        shape  == /\ mag # <<>>
                  /\ \A i \in 1..Len(mag) : mag[i] \in Digits \cup {"_"}
                  /\ mag[1] # "_" /\ mag[Len(mag)] # "_"
                  /\ \A i \in 1..(Len(mag) - 1) : ~(mag[i] = "_" /\ mag[i+1] = "_")
        digs   == SelectSeq(mag, LAMBDA c : c \in Digits)
        val    == DigitsValue(digs)
    IN  IF shape
        THEN [ok |-> TRUE, val |-> IF signed /\ Head(u) = "-" THEN 0 - val ELSE val]
        ELSE [ok |-> FALSE, val |-> 0]

(***************************************************************************)
(* URL.parse                                                               *)
(***************************************************************************)
URL_PATH_SEP == <<"/">>
NEWLINE == <<"\r","\n">>
ENCODING_GZIP == <<"g","z","i","p">>
HEADER_CONTENT_ENCODING ==
    <<"c","o","n","t","e","n","t","-","e","n","c","o","d","i","n","g">>
HEADER_ACCEPT_ENCODING ==
    <<"a","c","c","e","p","t","-","e","n","c","o","d","i","n","g">>
SchemeSep == <<":","/","/">>
Http == <<"h","t","t","p">>
Https == <<"h","t","t","p","s">>

Raise(exc, msg) == [ok |-> FALSE, exc |-> exc, msg |-> msg]

URL(raw, host, path, port, scheme) ==
    [raw |-> raw, host |-> host, path |-> path, port |-> port, scheme |-> scheme]

\* A variant of RawOf: raw taken after url was reassigned to the remainder.
RawOf_AfterReassign(u, rest) == rest

\* Line 73: raw is the argument as given, taken before url is reassigned.
RawOf(u, rest) == u

\* A variant of SchemeOk: the scheme is not checked.
SchemeOk_Unchecked(scheme) == TRUE

\* Line 75: assert scheme in ["http", "https"]
SchemeOk(scheme) == scheme \in {Http, Https}

\* A variant of DefaultPort: 80 whatever the scheme.
DefaultPort_Always80(scheme) == 80

\* Line 76
DefaultPort(scheme) == IF scheme = Http THEN 80 ELSE 443

\* A variant of PathOf: the leading "/" is not put back.
PathOf_NoSlash(tail) == tail

\* Line 86: path = URL_PATH_SEP + path
PathOf(tail) == URL_PATH_SEP \o tail

\* Lines 82-84: [ok, host, port] from the text before the first "/".
HostPort(hostpart, port0) ==
    IF Contains(hostpart, <<":">>)
    THEN LET hs == Split(hostpart, <<":">>, 1)
             n  == PyInt(hs[2])
         IN  [ok |-> n.ok, host |-> hs[1], port |-> n.val]
    ELSE [ok |-> TRUE, host |-> hostpart, port |-> port0]

\* Lines 72-88.
URL_parse(u) ==
    LET parts == Split(u, SchemeSep, 1)
    IN  IF Len(parts) # 2 THEN Raise("ValueError", <<>>)
        ELSE IF ~SchemeOk(parts[1]) THEN Raise("AssertionError", <<>>)
        ELSE LET scheme == parts[1]
                 rest   == IF ~Contains(parts[2], URL_PATH_SEP)
                           THEN parts[2] \o URL_PATH_SEP ELSE parts[2]
                 hp     == Split(rest, URL_PATH_SEP, 1)
                 h      == HostPort(hp[1], DefaultPort(scheme))
             IN  IF ~h.ok THEN Raise("ValueError", <<>>)
                 ELSE [ok |-> TRUE,
                       loc |-> URL(RawOf(u, rest), h.host, PathOf(hp[2]),
                                   h.port, scheme)]

(***************************************************************************)
(* request(): the pieces                                                   *)
(***************************************************************************)
\* A variant of RequestText: the blank line that ends the request is left out.
RequestText_NoBlankLine(p) ==
    <<"G","E","T"," ">> \o p.path \o <<" ","H","T","T","P","/","1",".","0">>
    \o NEWLINE \o <<"H","o","s","t",":"," ">> \o p.host \o NEWLINE
    \o HEADER_ACCEPT_ENCODING \o <<":"," ">> \o ENCODING_GZIP \o NEWLINE

\* Line 101: the text of the request.
RequestText(p) ==
    <<"G","E","T"," ">> \o p.path \o <<" ","H","T","T","P","/","1",".","0">>
    \o NEWLINE \o <<"H","o","s","t",":"," ">> \o p.host \o NEWLINE
    \o HEADER_ACCEPT_ENCODING \o <<":"," ">> \o ENCODING_GZIP \o NEWLINE \o NEWLINE

\* BufferedReader.readline(): the bytes after pos up to and including the
\* first LF, or up to the end of the stream.
ReadLine(bytes, pos) ==
    LET ends == {i \in (pos + 1)..Len(bytes) : bytes[i] = 10}
        last == IF ends = {} THEN Len(bytes)
                ELSE CHOOSE i \in ends : \A j \in ends : i <= j
    IN  [line |-> SubSeq(bytes, pos + 1, last), next |-> last]

\* A variant of ReadAll: the body is read as one more line.
ReadAll_OneLine(bytes, pos) == ReadLine(bytes, pos).line

\* BufferedReader.read(): everything up to the end of the stream.
ReadAll(bytes, pos) == SubSeq(bytes, pos + 1, Len(bytes))

\* A variant of StatusFields: missing fields are filled in as empty.
StatusFields_Padded(line) ==
    LET parts == Split(line, <<" ">>, 2)
    IN  parts \o [i \in 1..(3 - Len(parts)) |-> <<>>]

\* Line 107: statusline.split(" ", 2)
StatusFields(line) == Split(line, <<" ">>, 2)

\* A variant of StatusOk: every status is let through.
StatusOk_Any(st) == TRUE

\* Line 108: assert status == "200"
StatusOk(st) == st = <<"2","0","0">>

\* Line 108: the assertion's message, "{}: {}".format(status, explanation)
StatusMessage(st, expl) == st \o <<":"," ">> \o expl

\* A variant of IsBlank: an empty read at end of stream also ends the headers.
IsBlank_OrEmpty(line) == Strip(line) = <<>>

\* Line 113: the line that ends the headers.
IsBlank(line) == line = NEWLINE

EmptyDict == [k \in {} |-> <<>>]

\* A variant of DictSet: a key already present keeps its first value.
DictSet_KeepFirst(d, k, v) ==
    [x \in DOMAIN d \cup {k} |-> IF x \in DOMAIN d THEN d[x] ELSE v]

\* dict.__setitem__
DictSet(d, k, v) == [x \in DOMAIN d \cup {k} |-> IF x = k THEN v ELSE d[x]]

\* dict.get(k, default)
DictGet(d, k, default) == IF k \in DOMAIN d THEN d[k] ELSE default

\* A variant of HeaderInsert: the name is stored as it came.
HeaderInsert_NoLower(h, hv) == DictSet(h, hv[1], Strip(hv[2]))

\* Lines 115-116: headers[header.lower()] = value.strip()
HeaderInsert(h, hv) == DictSet(h, Lower(hv[1]), Strip(hv[2]))

\* A variant of IsGzip: the value is compared without lower-casing it.
IsGzip_CaseSensitive(h) == DictGet(h, HEADER_CONTENT_ENCODING, <<>>) = ENCODING_GZIP

\* Lines 118-119
IsGzip(h) == Lower(DictGet(h, HEADER_CONTENT_ENCODING, <<>>)) = ENCODING_GZIP

\* The gzip container, reduced: a three-byte header (magic, method), the
\* payload as one stored block, a one-byte checksum and a one-byte length.
GzipMagic == <<31, 139, 8>>

RECURSIVE Checksum(_)
Checksum(bytes) ==
    IF bytes = <<>> THEN 0 ELSE (Head(bytes) + 7 * Checksum(Tail(bytes)) + 1) % 256

GzipCompress(bytes) ==
    GzipMagic \o bytes \o <<Checksum(bytes), Len(bytes) % 256>>

\* gzip.decompress: [ok, data]; empty input is an empty result; a bad header,
\* checksum or length raises (BadGzipFile, EOFError or zlib.error in the
\* library, recorded here under the one name BadGzipFile).
GzipDecompress(raw) ==
    IF raw = <<>> THEN [ok |-> TRUE, data |-> <<>>]
    ELSE IF Len(raw) < 5 \/ SubSeq(raw, 1, 3) # GzipMagic
    THEN [ok |-> FALSE, data |-> <<>>]
    ELSE LET data == SubSeq(raw, 4, Len(raw) - 2)
         IN  IF raw[Len(raw) - 1] = Checksum(data) /\ raw[Len(raw)] = Len(data) % 256
             THEN [ok |-> TRUE, data |-> data]
             ELSE [ok |-> FALSE, data |-> <<>>]

\* Lines 120 and 122: [ok, gunzip, text | exc] from the raw body, through
\* the gzip decompressor or not.
Decode(is_gzip, raw) ==
    IF is_gzip
    THEN LET z == GzipDecompress(raw)
             d == DecodeUtf8(z.data)
         IN  IF ~z.ok THEN [ok |-> FALSE, gunzip |-> TRUE, exc |-> "BadGzipFile", text |-> <<>>]
             ELSE IF ~d.ok THEN [ok |-> FALSE, gunzip |-> TRUE, exc |-> "UnicodeDecodeError", text |-> <<>>]
             ELSE [ok |-> TRUE, gunzip |-> TRUE, exc |-> "", text |-> d.text]
    ELSE LET d == DecodeUtf8(raw)
         IN  IF ~d.ok THEN [ok |-> FALSE, gunzip |-> FALSE, exc |-> "UnicodeDecodeError", text |-> <<>>]
             ELSE [ok |-> TRUE, gunzip |-> FALSE, exc |-> "", text |-> d.text]

\* A variant of DecodeBody: a content-length header cuts the body short.
DecodeBody_ContentLength(h, raw) ==
    LET name == <<"c","o","n","t","e","n","t","-","l","e","n","g","t","h">>
        n    == IF name \in DOMAIN h THEN PyInt(h[name]).val ELSE Len(raw)
    IN  Decode(IsGzip(h), SubSeq(raw, 1, IF n < Len(raw) THEN n ELSE Len(raw)))

\* Lines 118-122: [ok, gunzip, text | exc] from the headers and the raw body.
DecodeBody(h, raw) == Decode(IsGzip(h), raw)

(***************************************************************************)
(* Inputs: the URLs given to request() and the replies of the peer         *)
(***************************************************************************)
MaxHeaders == 2

NoPort == [has |-> FALSE, text |-> <<>>]
Port(t) == [has |-> TRUE, text |-> t]

Schemes == {Http, Https, <<"f","t","p">>, <<"H","T","T","P">>}
Seps == {SchemeSep, <<":","/">>}
Hosts == {<<"h">>, <<"a",".","b">>}
PortTexts ==
    {<<"8","0">>, <<"8","0","8","0">>, <<"0">>, <<"4","4","3">>,
     <<>>, <<"x">>, <<"-","1">>, <<" ","8","0"," ">>, <<"+","5">>,
     <<"8","_","0">>, <<"8",":","1">>}
Ports == {NoPort} \cup {Port(t) : t \in PortTexts}
Paths ==
    {<<>>, <<"/">>, <<"/","a","/","b">>, <<"/","a","?","q","=","1","#","f">>,
     <<"/","x",":","/","/","y",":","9">>}

Givens ==
    [scheme : Schemes, sep : Seps, host : Hosts, port : Ports, path : Paths]

UrlText(g) ==
    g.scheme \o g.sep \o g.host
    \o (IF g.port.has THEN <<":">> \o g.port.text ELSE <<>>) \o g.path

Given0 == [scheme |-> Http, sep |-> SchemeSep, host |-> <<"h">>,
           port |-> NoPort, path |-> <<"/">>]

S200 == <<"H","T","T","P","/","1",".","0"," ","2","0","0"," ","O","K","\r","\n">>
S404 == <<"H","T","T","P","/","1",".","0"," ","4","0","4"," ","N","o","t"," ","F","o","u","n","d","\r","\n">>
S301 == <<"H","T","T","P","/","1",".","1"," ","3","0","1"," ","M","o","v","e","d","\r","\n">>
S2F == <<"H","T","T","P","/","1",".","0"," ","2","0","0","\r","\n">>
S2SP == <<"H","T","T","P","/","1",".","0"," "," ","2","0","0"," ","O","K","\r","\n">>
S2T == <<"H","T","T","P","/","1",".","0"," ","2","0","0"," ","\r","\n">>
S2D == <<"H","T","T","P","/","1",".","0"," "," ","2","0","0","\r","\n">>
S1F == <<"H","T","T","P","/","1",".","0","\r","\n">>
StatusLines == {S200, S404, S301, S2F, S2SP, S2T, S2D, S1F, <<>>}

H_gzip == <<"C","o","n","t","e","n","t","-","E","n","c","o","d","i","n","g",":"," ","g","z","i","p","\r","\n">>
H_GZIP == <<"C","O","N","T","E","N","T","-","E","N","C","O","D","I","N","G",":"," "," ","G","Z","I","P"," ","\r","\n">>
H_br == <<"c","o","n","t","e","n","t","-","e","n","c","o","d","i","n","g",":"," ","b","r","\r","\n">>
H_len == <<"C","o","n","t","e","n","t","-","L","e","n","g","t","h",":"," ","1","\r","\n">>
H_colon == <<"X",":"," ","a",":","b","\r","\n">>
H_dup == <<"x",":"," ","c","\r","\n">>
H_bad == <<"g","a","r","b","a","g","e","\r","\n">>
H_sp == <<"C","o","n","t","e","n","t","-","E","n","c","o","d","i","n","g"," ",":"," ","g","z","i","p","\r","\n">>
HeaderLines == {H_gzip, H_GZIP, H_br, H_len, H_colon, H_dup, H_bad, H_sp}

HeaderSeqs == UNION {[1..n -> HeaderLines] : n \in 0..MaxHeaders}

T_hi == <<"h","i">>
T_nl == <<"a","\n","b">>
T_tag == <<"<","p",">",EAcute,"<","/","p",">">>
Texts == {<<>>, T_hi, T_nl, T_tag}

CorruptGzip == GzipMagic \o <<104, 105>> \o <<0, 2>>
Bodies ==
    {EncodeUtf8(t) : t \in Texts} \cup {GzipCompress(EncodeUtf8(t)) : t \in Texts}
    \cup {CorruptGzip, <<255>>, GzipCompress(<<255>>)}

RECURSIVE Flatten(_)
Flatten(lines) == IF lines = <<>> THEN <<>> ELSE Head(lines) \o Flatten(Tail(lines))

Reply(sl, hdrs, blank, b) ==
    [statusline |-> sl, hdrs |-> hdrs, blank |-> blank, body |-> b]

\* The bytes of a reply: status line, header lines, the blank line when the
\* peer sends one, then the body up to the close of the connection.
Wire(r) ==
    EncodeUtf8(r.statusline \o Flatten(r.hdrs)
               \o (IF r.blank THEN NEWLINE ELSE <<>>)) \o r.body

Reply0 == Reply(S200, <<H_gzip>>, TRUE, GzipCompress(EncodeUtf8(T_hi)))

Replies ==
    {Reply(S200, hs, TRUE, b) : hs \in HeaderSeqs, b \in Bodies}
    \cup {Reply(S200, hs, FALSE, <<>>) : hs \in HeaderSeqs}
    \cup {Reply(sl, <<H_gzip>>, TRUE, Reply0.body) : sl \in StatusLines \ {<<>>}}
    \cup {Reply(<<>>, <<>>, FALSE, <<>>)}

FewReplies ==
    {Reply0, Reply(S404, <<H_gzip>>, TRUE, Reply0.body),
     Reply(S200, <<>>, TRUE, EncodeUtf8(T_hi))}

(***************************************************************************)
(* request(), lines 91-126                                                 *)
(***************************************************************************)
NoSocket ==
    [created |-> FALSE, tls |-> FALSE, server_hostname |-> <<>>,
     connected |-> FALSE, closed |-> FALSE]

\* Browser.__init__, lines 149-160
BrowserInit ==
    /\ display_list = <<>>
    /\ scroll = 0
    /\ canvas = <<>>
    /\ page = None
    /\ loaded_text = <<>>
    /\ last_op = "__init__"
    /\ redrawn = FALSE

Init ==
    /\ BrowserInit
    /\ \/ given = Given0 /\ resp \in Replies
       \/ given \in Givens /\ resp \in FewReplies
    /\ url = UrlText(given)
    /\ wire = Wire(resp)
    /\ pc = "parse"
    /\ parsed = None
    /\ s = NoSocket
    /\ sent = <<>>
    /\ rpos = 0
    /\ io = <<>>
    /\ status = <<>>
    /\ explanation = <<>>
    /\ headers = EmptyDict
    /\ gunzip = FALSE
    /\ body = <<>>
    /\ result = None
    /\ error = None

Raised(exc, at, msg) == [exc |-> exc, at |-> at, msg |-> msg]

\* Line 92
ParseURL ==
    /\ pc = "parse"
    /\ LET r == URL_parse(url)
       IN  IF r.ok
           THEN /\ parsed' = r.loc
                /\ pc' = "socket"
                /\ error' = error
           ELSE /\ parsed' = parsed
                /\ pc' = "raised"
                /\ error' = Raised(r.exc, "URL.parse", <<>>)
    /\ UNCHANGED <<given, url, resp, wire, s, sent, rpos, io, status, explanation,
                   headers, gunzip, body, result>>
    /\ UNCHANGED browserVars

\* Line 93
NewSocket ==
    /\ pc = "socket"
    /\ s' = [s EXCEPT !.created = TRUE]
    /\ pc' = "wrap"
    /\ UNCHANGED <<given, url, resp, wire, parsed, sent, rpos, io, status,
                   explanation, headers, gunzip, body, result, error>>
    /\ UNCHANGED browserVars

\* A variant of NeedsTls: the socket is never wrapped.
NeedsTls_Never(scheme) == FALSE

\* Line 95: if parsed.scheme == "https"
NeedsTls(scheme) == scheme = Https

\* Lines 95-97: the default context verifies the certificate against
\* server_hostname during the handshake of connect.
WrapSocket ==
    /\ pc = "wrap"
    /\ s' = IF NeedsTls(parsed.scheme)
            THEN [s EXCEPT !.tls = TRUE, !.server_hostname = parsed.host]
            ELSE s
    /\ pc' = "connect"
    /\ UNCHANGED <<given, url, resp, wire, parsed, sent, rpos, io, status,
                   explanation, headers, gunzip, body, result, error>>
    /\ UNCHANGED browserVars

\* What s.connect can do: a port outside 0..65535 is an OverflowError; else
\* the peer accepts or refuses, and a TLS handshake may fail.
ConnectOutcomes(sock, port) ==
    IF port < 0 \/ port > 65535 THEN {"OverflowError"}
    ELSE {"ok", "ConnectionRefusedError"}
         \cup (IF sock.tls THEN {"SSLError"} ELSE {})

\* Line 99
Connect ==
    /\ pc = "connect"
    /\ \E outcome \in ConnectOutcomes(s, parsed.port) :
          IF outcome = "ok"
          THEN /\ s' = [s EXCEPT !.connected = TRUE]
               /\ pc' = "send"
               /\ error' = error
          ELSE /\ s' = s
               /\ pc' = "raised"
               /\ error' = Raised(outcome, "connect", <<>>)
    /\ io' = Append(io, "connect")
    /\ UNCHANGED <<given, url, resp, wire, parsed, sent, rpos, status,
                   explanation, headers, gunzip, body, result>>
    /\ UNCHANGED browserVars

\* Lines 100-105
Send ==
    /\ pc = "send"
    /\ sent' = Append(sent, EncodeUtf8(RequestText(parsed)))
    /\ io' = Append(io, "send")
    /\ pc' = "statusline"
    /\ UNCHANGED <<given, url, resp, wire, parsed, s, rpos, status, explanation,
                   headers, gunzip, body, result, error>>
    /\ UNCHANGED browserVars

\* Lines 106-110
ReadStatusLine ==
    /\ pc = "statusline"
    /\ LET r     == ReadLine(wire, rpos)
           d     == DecodeUtf8(r.line)
           parts == StatusFields(d.text)
       IN  /\ rpos' = r.next
           /\ IF ~d.ok
              THEN /\ error' = Raised("UnicodeDecodeError", "statusline", <<>>)
                   /\ pc' = "raised"
                   /\ UNCHANGED <<status, explanation>>
              ELSE IF Len(parts) # 3
              THEN /\ error' = Raised("ValueError", "statusline", <<>>)
                   /\ pc' = "raised"
                   /\ UNCHANGED <<status, explanation>>
              ELSE /\ status' = parts[2]
                   /\ explanation' = parts[3]
                   /\ IF StatusOk(parts[2])
                      THEN pc' = "headers" /\ error' = error
                      ELSE /\ pc' = "raised"
                           /\ error' = Raised("AssertionError", "statusline",
                                              StatusMessage(parts[2], parts[3]))
    /\ io' = Append(io, "readline")
    /\ headers' = EmptyDict
    /\ UNCHANGED <<given, url, resp, wire, parsed, s, sent, gunzip, body, result>>
    /\ UNCHANGED browserVars

\* Lines 111-116, once round the loop
ReadHeaderLine ==
    /\ pc = "headers"
    /\ LET r  == ReadLine(wire, rpos)
           d  == DecodeUtf8(r.line)
           hv == Split(d.text, <<":">>, 1)
       IN  /\ rpos' = r.next
           /\ IF ~d.ok
              THEN /\ error' = Raised("UnicodeDecodeError", "header", <<>>)
                   /\ pc' = "raised"
                   /\ headers' = headers
              ELSE IF IsBlank(d.text)
              THEN /\ pc' = "body"
                   /\ UNCHANGED <<headers, error>>
              ELSE IF Len(hv) # 2
              THEN /\ error' = Raised("ValueError", "header", <<>>)
                   /\ pc' = "raised"
                   /\ headers' = headers
              ELSE /\ headers' = HeaderInsert(headers, hv)
                   /\ pc' = "headers"
                   /\ error' = error
    /\ io' = Append(io, "readline")
    /\ UNCHANGED <<given, url, resp, wire, parsed, s, sent, status, explanation,
                   gunzip, body, result>>
    /\ UNCHANGED browserVars

\* Lines 118-122
ReadBody ==
    /\ pc = "body"
    /\ LET b == DecodeBody(headers, ReadAll(wire, rpos))
       IN  /\ gunzip' = b.gunzip
           /\ IF b.ok
              THEN body' = b.text /\ pc' = "close" /\ error' = error
              ELSE body' = body /\ pc' = "raised"
                   /\ error' = Raised(b.exc, "body", <<>>)
    /\ rpos' = Len(wire)
    /\ io' = Append(io, "read")
    /\ UNCHANGED <<given, url, resp, wire, parsed, s, sent, status, explanation,
                   headers, result>>
    /\ UNCHANGED browserVars

\* Lines 124-126
CloseAndReturn ==
    /\ pc = "close"
    /\ s' = [s EXCEPT !.closed = TRUE]
    /\ io' = Append(io, "close")
    /\ result' = [headers |-> headers, body |-> body]
    /\ pc' = "returned"
    /\ UNCHANGED <<given, url, resp, wire, parsed, sent, rpos, status, explanation,
                   headers, gunzip, body, error>>
    /\ UNCHANGED browserVars

Next ==
    \/ ParseURL
    \/ NewSocket
    \/ WrapSocket
    \/ Connect
    \/ Send
    \/ ReadStatusLine
    \/ ReadHeaderLine
    \/ ReadBody
    \/ CloseAndReturn

Spec == Init /\ [][Next]_vars

(***************************************************************************)
(* request() as one call: what Browser.load gets back                      *)
(***************************************************************************)
\* Lines 111-116: the header loop from offset pos, to the headers and the
\* offset after the blank line, or to the exception that ends it.
RECURSIVE HeaderLoop(_, _, _)
HeaderLoop(bytes, pos, h) ==
    LET r  == ReadLine(bytes, pos)
        d  == DecodeUtf8(r.line)
        hv == Split(d.text, <<":">>, 1)
    IN  IF ~d.ok THEN [ok |-> FALSE, exc |-> "UnicodeDecodeError"]
        ELSE IF IsBlank(d.text) THEN [ok |-> TRUE, headers |-> h, next |-> r.next]
        ELSE IF Len(hv) # 2 THEN [ok |-> FALSE, exc |-> "ValueError"]
        ELSE HeaderLoop(bytes, r.next, HeaderInsert(h, hv))

\* Lines 105-126: the reply bytes to (headers, body) or to an exception.
Response(bytes) ==
    LET r     == ReadLine(bytes, 0)
        d     == DecodeUtf8(r.line)
        parts == StatusFields(d.text)
    IN  IF ~d.ok THEN [ok |-> FALSE, exc |-> "UnicodeDecodeError"]
        ELSE IF Len(parts) # 3 THEN [ok |-> FALSE, exc |-> "ValueError"]
        ELSE IF ~StatusOk(parts[2]) THEN [ok |-> FALSE, exc |-> "AssertionError"]
        ELSE LET hl == HeaderLoop(bytes, r.next, EmptyDict)
             IN  IF ~hl.ok THEN hl
                 ELSE LET b == DecodeBody(hl.headers, ReadAll(bytes, hl.next))
                      IN  IF ~b.ok THEN [ok |-> FALSE, exc |-> b.exc]
                          ELSE [ok |-> TRUE, headers |-> hl.headers, body |-> b.text]

\* Lines 91-126, with the outcome of connect and the bytes the peer sends.
request(u, outcome, bytes) ==
    LET p == URL_parse(u)
    IN  IF ~p.ok THEN [ok |-> FALSE, exc |-> p.exc]
        ELSE IF outcome # "ok" THEN [ok |-> FALSE, exc |-> outcome]
        ELSE Response(bytes)

(***************************************************************************)
(* lex, layout and the Browser                                             *)
(***************************************************************************)
WIDTH == 800
HEIGHT == 600
SCROLL_STEP == 100
HSTEP == 13
VSTEP == 18

\* Lines 133-136: the flag after reading c.
InAngleAfter(c, in_angle) ==
    IF c = "<" THEN TRUE ELSE IF c = ">" THEN FALSE ELSE in_angle

\* A variant of Emits: the closing ">" is let through with the text.
Emits_ClosingBracket(c, in_angle) == c # "<" /\ (c = ">" \/ ~in_angle)

\* Lines 133-138: whether c is appended to the text.
Emits(c, in_angle) == c # "<" /\ c # ">" /\ ~in_angle

\* Lines 133-138: one turn of the loop on the state (in_angle, text).
LexStep(st, c) ==
    [in_angle |-> InAngleAfter(c, st.in_angle),
     out      |-> IF Emits(c, st.in_angle) THEN Append(st.out, c) ELSE st.out]

\* Line 132: the loop over b[lo..hi], in order, from state st.  The range is
\* walked half by half, the second half from the state st1 the first half
\* ends in, which keeps the evaluation shallow on a long page.
RECURSIVE LexFrom(_, _, _, _)
LexFrom(b, lo, hi, st) ==
    IF lo > hi THEN st
    ELSE IF lo = hi THEN LexStep(st, b[lo])
    ELSE LET mid == (lo + hi) \div 2
         IN  CHOOSE r \in {LexFrom(b, mid + 1, hi, st1) :
                              st1 \in {LexFrom(b, lo, mid, st)}} : TRUE

\* Lines 129-140
lex(b) == LexFrom(b, 1, Len(b), [in_angle |-> FALSE, out |-> <<>>]).out

\* Lines 29-36
Character(x, y, c) == [loc |-> [x |-> x, y |-> y], char |-> c]

\* A variant of Wraps: the line runs to the full width.
Wraps_AtWidth(x) == x >= WIDTH

\* Line 56
Wraps(x) == x >= WIDTH - HSTEP

\* Lines 47-58: one turn of the loop on the state (cursor_x, cursor_y,
\* display_list).
LayoutStep(st, c) ==
    IF c = "\n"
    THEN [cursor_x |-> HSTEP, cursor_y |-> st.cursor_y + 2 * VSTEP, dl |-> st.dl]
    ELSE LET placed == Append(st.dl, Character(st.cursor_x, st.cursor_y, c))
         IN  IF Wraps(st.cursor_x + HSTEP)
             THEN [cursor_x |-> HSTEP, cursor_y |-> st.cursor_y + VSTEP,
                   dl |-> placed]
             ELSE [cursor_x |-> st.cursor_x + HSTEP, cursor_y |-> st.cursor_y,
                   dl |-> placed]

\* Line 46: the loop over t[lo..hi], in order, from state st, walked half by
\* half as in LexFrom.
RECURSIVE LayoutFrom(_, _, _, _)
LayoutFrom(t, lo, hi, st) ==
    IF lo > hi THEN st
    ELSE IF lo = hi THEN LayoutStep(st, t[lo])
    ELSE LET mid == (lo + hi) \div 2
         IN  CHOOSE r \in {LayoutFrom(t, mid + 1, hi, st1) :
                              st1 \in {LayoutFrom(t, lo, mid, st)}} : TRUE

\* Lines 42-60
layout(t) ==
    LayoutFrom(t, 1, Len(t),
               [cursor_x |-> HSTEP, cursor_y |-> VSTEP, dl |-> <<>>]).dl

\* Lines 175-178: the glyphs draw() does not skip.
Visible(d, sc) == ~(d.loc.y > sc + HEIGHT) /\ ~(d.loc.y + VSTEP < sc)

\* Lines 172-179: the canvas after draw().
DrawItems(dl, sc) ==
    LET vis == SelectSeq(dl, LAMBDA d : Visible(d, sc))
    IN  [i \in 1..Len(vis) |->
            [x |-> vis[i].loc.x, y |-> vis[i].loc.y - sc, text |-> vis[i].char]]

\* A variant of ScrollUp: the offset is not held at the top.
ScrollUp_NoClamp(sc) == sc - SCROLL_STEP

\* Line 168
ScrollUp(sc) == IF sc - SCROLL_STEP > 0 THEN sc - SCROLL_STEP ELSE 0

\* A variant of NeedsDraw: scroll_up draws every time.
NeedsDraw_Always(before, now) == TRUE

\* Line 169
NeedsDraw(before, now) == before # now

MaxScroll == 4

Run(n) == [i \in 1..n |-> "a"]

PageTexts ==
    {<<>>, T_hi, T_nl, T_tag,
     <<"a","<","b",">","c","<","/","b",">","d">>,
     <<"<","h","t","m","l",">","h","i">>,
     <<"x","<","y"," ","z">>,
     <<"a",">","b","<","c","<","d",">","e">>,
     <<"\n","\n","a","\r","\n","b">>,
     Run(59) \o <<"\n","b">>, Run(60), Run(60) \o <<"\n","b">>, Run(61),
     Run(121) \o <<"\n">>, [i \in 1..17 |-> "\n"] \o <<"z">>}

\* What the peer may answer to a load: each page as a plain 200 reply, one
\* page gzipped, a 404 and a reply cut inside its headers.
LoadWires ==
    {Wire(Reply(S200, <<>>, TRUE, EncodeUtf8(t))) : t \in PageTexts}
    \cup {Wire(Reply0), Wire(Reply(S404, <<>>, TRUE, EncodeUtf8(T_hi))),
          Wire(Reply(S200, <<H_len>>, FALSE, <<>>))}

LoadUrls == {UrlText(Given0), <<"f","t","p",":","/","/","h","/">>}

\* Lines 162-164
scroll_down ==
    /\ scroll < MaxScroll * SCROLL_STEP
    /\ scroll' = scroll + SCROLL_STEP
    /\ canvas' = DrawItems(display_list, scroll + SCROLL_STEP)
    /\ redrawn' = TRUE
    /\ last_op' = "scroll_down"
    /\ UNCHANGED <<display_list, page, loaded_text>>
    /\ UNCHANGED requestVars

\* Lines 166-170
scroll_up ==
    /\ scroll' = ScrollUp(scroll)
    /\ IF NeedsDraw(scroll, ScrollUp(scroll))
       THEN canvas' = DrawItems(display_list, ScrollUp(scroll)) /\ redrawn' = TRUE
       ELSE canvas' = canvas /\ redrawn' = FALSE
    /\ last_op' = "scroll_up"
    /\ UNCHANGED <<display_list, page, loaded_text>>
    /\ UNCHANGED requestVars

\* Lines 181-185: an exception of request() leaves load at line 182.
load ==
    /\ \E u \in LoadUrls, outcome \in {"ok", "ConnectionRefusedError"},
          bytes \in LoadWires :
          LET got == request(u, outcome, bytes)
          IN  /\ page' = got
              /\ IF got.ok
                 THEN /\ loaded_text' = lex(got.body)
                      /\ display_list' = layout(loaded_text')
                      /\ canvas' = DrawItems(display_list', scroll)
                      /\ redrawn' = TRUE
                 ELSE /\ UNCHANGED <<loaded_text, display_list, canvas>>
                      /\ redrawn' = FALSE
    /\ last_op' = "load"
    /\ scroll' = scroll
    /\ UNCHANGED requestVars

\* A Browser just made, no request() under way.
InitBrowser ==
    /\ BrowserInit
    /\ given = Given0
    /\ resp = Reply0
    /\ url = UrlText(Given0)
    /\ wire = Wire(Reply0)
    /\ pc = "parse"
    /\ parsed = None
    /\ s = NoSocket
    /\ sent = <<>>
    /\ rpos = 0
    /\ io = <<>>
    /\ status = <<>>
    /\ explanation = <<>>
    /\ headers = EmptyDict
    /\ gunzip = FALSE
    /\ body = <<>>
    /\ result = None
    /\ error = None

NextBrowser ==
    \/ scroll_down
    \/ scroll_up
    \/ load

SpecBrowser == InitBrowser /\ [][NextBrowser]_vars

(***************************************************************************)
(* Properties                                                              *)
(***************************************************************************)
Count(seq, x) == Cardinality({i \in DOMAIN seq : seq[i] = x})

Ended == pc \in {"returned", "raised"}

\* The exchange got as far as reading the reply.
ReplyRead == Count(io, "readline") >= 1

\* C1: every call of request() that created a socket has closed it when
\* the call has ended, by return or by any exception.
C1_SocketClosedOnEveryExit == (Ended /\ s.created) => s.closed

\* The request as the specification spells it, header name capitalised.
SpecRequest(path, host) ==
    <<"G","E","T"," ">> \o path
    \o <<" ","H","T","T","P","/","1",".","0","\r","\n">>
    \o <<"H","o","s","t",":"," ">> \o host \o <<"\r","\n">>
    \o <<"A","c","c","e","p","t","-","E","n","c","o","d","i","n","g",":"," ",
         "g","z","i","p","\r","\n","\r","\n">>

\* The request as sent: the second header name is lower-case.
WireRequest(path, host) ==
    <<"G","E","T"," ">> \o path
    \o <<" ","H","T","T","P","/","1",".","0","\r","\n">>
    \o <<"H","o","s","t",":"," ">> \o host \o <<"\r","\n">>
    \o <<"a","c","c","e","p","t","-","e","n","c","o","d","i","n","g",":"," ",
         "g","z","i","p","\r","\n","\r","\n">>

\* One write, made before any read, and none after a failure.
SingleShot ==
    /\ Len(sent) = Count(io, "send")
    /\ Len(sent) <= 1
    /\ \A i \in DOMAIN io :
          io[i] \in {"readline", "read"} => \E j \in 1..(i - 1) : io[j] = "send"
    /\ pc = "returned" => Len(sent) = 1

NonOkStatus ==
    {<<S404, <<"4","0","4">>, <<"N","o","t"," ","F","o","u","n","d","\r","\n">>>>,
     <<S301, <<"3","0","1">>, <<"M","o","v","e","d","\r","\n">>>>}

\* C3: a reply whose status is not 200 ends the call with the assertion
\* error that carries code and reason; nothing is returned, only the status
\* line was read, no header was stored and no body read or decoded.
C3_NonOkStatusFailsEarly ==
    \A x \in NonOkStatus :
        (resp.statusline = x[1] /\ ReplyRead) =>
            /\ pc = "raised"
            /\ error = Raised("AssertionError", "statusline",
                              x[2] \o <<":"," ">> \o x[3])
            /\ result = None
            /\ Count(io, "readline") = 1
            /\ Count(io, "read") = 0
            /\ rpos = Len(x[1])
            /\ headers = EmptyDict
            /\ ~gunzip
            /\ body = <<>>

C3_Witness ==
    /\ resp.statusline = S404
    /\ pc = "raised"
    /\ error.exc = "AssertionError"
    /\ rpos < Len(wire)

WellFormedHeaders(r) == \A i \in DOMAIN r.hdrs : r.hdrs[i] # H_bad

\* The reply is a 200 status line and well-formed header lines, then the
\* stream ends with no blank line.
ClosedMidHeader ==
    resp.statusline = S200 /\ WellFormedHeaders(resp) /\ ~resp.blank

\* C4: a stream that ends inside the headers ends the call with a
\* ValueError from the header loop: the loop reads each line once and the
\* empty read at end of stream once, and nothing is returned.
C4_ClosedMidHeaderRaises ==
    (ClosedMidHeader /\ ReplyRead) =>
        /\ Count(io, "readline") <= Len(resp.hdrs) + 2
        /\ pc # "returned" /\ pc # "body" /\ pc # "close"
        /\ result = None
        /\ Count(io, "readline") = Len(resp.hdrs) + 2 =>
              pc = "raised" /\ error.exc = "ValueError" /\ error.at = "header"
        /\ Ended => Count(io, "readline") = Len(resp.hdrs) + 2

C4_Witness ==
    /\ ClosedMidHeader
    /\ resp.hdrs = <<H_len, H_colon>>
    /\ pc = "raised"
    /\ error.exc = "ValueError"
    /\ DOMAIN headers # {}

\* Header lines of the pool named content-encoding ignoring case, and those
\* among them whose trimmed value is gzip ignoring case.
EncodingLines == {H_gzip, H_GZIP, H_br}
GzipLines == {H_gzip, H_GZIP}

BodyRead == Count(io, "read") = 1

SomeGzipHeader == \E i \in DOMAIN resp.hdrs : resp.hdrs[i] \in GzipLines

LastEncodingIsGzip ==
    \E i \in DOMAIN resp.hdrs :
        /\ resp.hdrs[i] \in GzipLines
        /\ \A j \in (i + 1)..Len(resp.hdrs) : resp.hdrs[j] \notin EncodingLines

\* C5 as claimed: the body goes through the gzip decompressor exactly when
\* some header is named content-encoding with value gzip, both ignoring
\* case; every other body is taken as text directly.
C5_GunzipIffSomeGzipHeader ==
    BodyRead =>
        /\ gunzip <=> SomeGzipHeader
        /\ (pc \in {"close", "returned"} /\ ~gunzip) => EncodeUtf8(body) = resp.body

\* C5 amended: the body goes through the gzip decompressor exactly when
\* the last header named content-encoding has value gzip, both ignoring
\* case; every other body is taken as text directly.
C5_GunzipIffLastEncodingIsGzip ==
    BodyRead =>
        /\ gunzip <=> LastEncodingIsGzip
        /\ (pc \in {"close", "returned"} /\ ~gunzip) => EncodeUtf8(body) = resp.body

C5_Witness ==
    /\ pc = "returned"
    /\ \/ resp.hdrs = <<H_gzip, H_br>> /\ ~gunzip
       \/ resp.hdrs = <<H_br, H_GZIP>> /\ gunzip

\* C6: a 200 reply with the one header content-encoding: gzip, a blank
\* line and gzip(t) returns body t and headers {content-encoding: gzip}.
C6_GzipRoundTrip ==
    \A t \in Texts :
        (/\ resp = Reply(S200, <<H_gzip>>, TRUE, GzipCompress(EncodeUtf8(t)))
         /\ ReplyRead /\ Ended) =>
            /\ pc = "returned"
            /\ status = <<"2","0","0">>
            /\ result.body = t
            /\ DOMAIN result.headers = {HEADER_CONTENT_ENCODING}
            /\ result.headers[HEADER_CONTENT_ENCODING] = <<"g","z","i","p">>

C6_Witness ==
    /\ resp = Reply(S200, <<H_gzip>>, TRUE, GzipCompress(EncodeUtf8(T_nl)))
    /\ pc = "returned"
    /\ result.body = T_nl

IsDecimal(t) == t # <<>> /\ \A i \in DOMAIN t : t[i] \in Digits

\* The input has the form scheme://host[:port][/path], scheme http or https.
WellFormedGiven ==
    /\ given.scheme \in {Http, Https}
    /\ given.sep = SchemeSep
    /\ given.port.has => IsDecimal(given.port.text)

UrlParsed == pc # "parse"

\* C7: a well-formed input parses, and parsing the raw field of the
\* result again gives the same record.
C7_ParseTotalAndIdempotent ==
    (WellFormedGiven /\ UrlParsed) =>
        /\ parsed # None
        /\ ~(pc = "raised" /\ error.at = "URL.parse")
        /\ URL_parse(parsed.raw) = [ok |-> TRUE, loc |-> parsed]

C7_Witness ==
    /\ WellFormedGiven
    /\ given.port = Port(<<"8","0","8","0">>)
    /\ given.path = <<"/","a","/","b">>
    /\ parsed # None

HasSchemeSep(u) == \E i \in 1..(Len(u) - 2) : SubSeq(u, i, i + 2) = <<":","/","/">>

BeforeSchemeSep(u) ==
    LET i == CHOOSE k \in 1..(Len(u) - 2) :
                /\ SubSeq(u, k, k + 2) = <<":","/","/">>
                /\ \A j \in 1..(k - 1) : SubSeq(u, j, j + 2) # <<":","/","/">>
    IN  SubSeq(u, 1, i - 1)

RejectedByParse ==
    /\ pc = "raised"
    /\ error.at = "URL.parse"
    /\ parsed = None
    /\ ~s.created

\* C8: an input with no "://", or whose text before the first "://" is
\* neither http nor https, is rejected by URL.parse.
C8_NoSeparatorOrBadSchemeRejected ==
    (/\ UrlParsed
     /\ \/ ~HasSchemeSep(url)
        \/ BeforeSchemeSep(url) \notin {<<"h","t","t","p">>, <<"h","t","t","p","s">>})
    => RejectedByParse

C8_Witness ==
    /\ RejectedByParse
    /\ \/ given.scheme = <<"f","t","p">> /\ given.sep = SchemeSep
       \/ given.scheme = Http /\ ~HasSchemeSep(url)

\* C9: an input whose port segment is not a non-negative decimal integer
\* (empty, a non-digit, a sign, surrounding spaces) is rejected by URL.parse.
C9_BadPortRejected ==
    (/\ UrlParsed
     /\ given.scheme \in {Http, Https}
     /\ given.sep = SchemeSep
     /\ given.port.has
     /\ ~IsDecimal(given.port.text))
    => RejectedByParse

\* The number each port text of the pool stands for, where int() takes it.
PortNumber ==
    {<<<<"8","0">>, 80>>, <<<<"8","0","8","0">>, 8080>>, <<<<"0">>, 0>>,
     <<<<"4","4","3">>, 443>>, <<<<"-","1">>, 0 - 1>>, <<<<" ","8","0"," ">>, 80>>,
     <<<<"+","5">>, 5>>, <<<<"8","_","0">>, 80>>}

\* C10: an accepted input has the explicit port when one is given, else
\* 80 for http and 443 for https, and the host carries no ":port".
C10_PortExplicitOrDefault ==
    (UrlParsed /\ parsed # None) =>
        /\ parsed.host = given.host
        /\ \A i \in DOMAIN parsed.host : parsed.host[i] # ":"
        /\ given.port.has => <<given.port.text, parsed.port>> \in PortNumber
        /\ (~given.port.has /\ given.scheme = Http) => parsed.port = 80
        /\ (~given.port.has /\ given.scheme = Https) => parsed.port = 443

C10_Witness ==
    /\ parsed # None
    /\ \/ given.scheme = Https /\ ~given.port.has /\ parsed.port = 443
       \/ given.scheme = Https /\ given.port.has /\ parsed.port = 8080

\* C11: the path of every parsed URL begins with "/": it is "/" alone when
\* nothing follows the host, else "/" and all that follows the first "/"
\* after the host, query and fragment included.
C11_PathBeginsWithSlash ==
    (UrlParsed /\ parsed # None) =>
        /\ parsed.path # <<>>
        /\ parsed.path[1] = "/"
        /\ given.path = <<>> => parsed.path = <<"/">>
        /\ given.path # <<>> => parsed.path = given.path

C11_Witness ==
    /\ parsed # None
    /\ \/ given.path = <<>> /\ given.port.has /\ parsed.path = <<"/">>
       \/ parsed.path = <<"/","x",":","/","/","y",":","9">>

UpperLetters ==
    {"A","B","C","D","E","F","G","H","I","J","K","L","M","N","O","P","Q","R",
     "S","T","U","V","W","X","Y","Z"}

AllLowerKeys(d) == \A k \in DOMAIN d : \A i \in DOMAIN k : k[i] \notin UpperLetters

\* C12: at every point of the header loop and in the returned mapping, no
\* key of headers has an upper-case letter.
C12_HeaderKeysLowerCase ==
    /\ AllLowerKeys(headers)
    /\ result # None => AllLowerKeys(result.headers)

C12_Witness ==
    /\ pc = "headers"
    /\ resp.hdrs = <<H_GZIP, H_colon>>
    /\ DOMAIN headers = {HEADER_CONTENT_ENCODING}

\* What each well-formed header line of the pool says: its name in lower
\* case and the trimmed text after its first colon.
HeaderMeaning ==
    {<<H_gzip, HEADER_CONTENT_ENCODING, <<"g","z","i","p">>>>,
     <<H_GZIP, HEADER_CONTENT_ENCODING, <<"G","Z","I","P">>>>,
     <<H_br, HEADER_CONTENT_ENCODING, <<"b","r">>>>,
     <<H_len, <<"c","o","n","t","e","n","t","-","l","e","n","g","t","h">>, <<"1">>>>,
     <<H_colon, <<"x">>, <<"a",":","b">>>>,
     <<H_dup, <<"x">>, <<"c">>>>,
     <<H_sp, HEADER_CONTENT_ENCODING \o <<" ">>, <<"g","z","i","p">>>>}

NameOf(line) == (CHOOSE m \in HeaderMeaning : m[1] = line)[2]
ValueOf(line) == (CHOOSE m \in HeaderMeaning : m[1] = line)[3]

HeadersDone == pc \in {"body", "close", "returned"}

\* C13: after well-formed header lines and the blank line, headers has one
\* key per distinct lower-cased name, mapped to the trimmed text after the
\* first colon of the last line with that name.
C13_LastHeaderWins ==
    (resp.statusline = S200 /\ WellFormedHeaders(resp) /\ HeadersDone) =>
        /\ DOMAIN headers = {NameOf(resp.hdrs[i]) : i \in DOMAIN resp.hdrs}
        /\ \A i \in DOMAIN resp.hdrs :
              (\A j \in (i + 1)..Len(resp.hdrs) :
                  NameOf(resp.hdrs[j]) # NameOf(resp.hdrs[i]))
              => headers[NameOf(resp.hdrs[i])] = ValueOf(resp.hdrs[i])
        /\ pc = "returned" => result.headers = headers

C13_Witness ==
    /\ pc = "returned"
    /\ resp.hdrs = <<H_colon, H_dup>>
    /\ result.headers[<<"x">>] = <<"c">>

\* The number of whitespace-separated fields of a line.
WsFields(t) ==
    Cardinality({i \in DOMAIN t :
                    t[i] \notin Whitespace /\ (i = 1 \/ t[i-1] \in Whitespace)})

StatusLineRejected ==
    /\ pc = "raised"
    /\ error.exc = "ValueError"
    /\ error.at = "statusline"
    /\ result = None

\* A header line without ":" after a 200 status line ends the call with a
\* ValueError from the header loop.
HeaderWithoutColonRejected ==
    (/\ resp.statusline = S200
     /\ \E i \in DOMAIN resp.hdrs : resp.hdrs[i] = H_bad
     /\ Ended)
    => /\ pc = "raised"
       /\ error.exc = "ValueError"
       /\ error.at = "header"
       /\ result = None

\* C16 as claimed: a status line of fewer than three whitespace-separated
\* fields, or a header line without ":", ends the call with a ValueError.
C16_FewerThanThreeFieldsRejected ==
    ReplyRead =>
        /\ WsFields(resp.statusline) < 3 => StatusLineRejected
        /\ HeaderWithoutColonRejected

\* C16 amended: a status line with fewer than two spaces (fewer than three
\* parts when split at single spaces), or a header line without ":", ends
\* the call with a ValueError.
C16_FewerThanTwoSpacesRejected ==
    ReplyRead =>
        /\ Count(resp.statusline, " ") < 2 => StatusLineRejected
        /\ HeaderWithoutColonRejected

C16_Witness ==
    /\ StatusLineRejected
    /\ resp.statusline \in {S2F, <<>>}

\* Where the body starts on the wire.
BodyStart == Len(wire) - Len(resp.body)

\* C17: the reply is read as status line, header lines, then the body in
\* one read; nothing past the blank line is consumed before it was seen,
\* and the body is every byte from there to the end of the stream,
\* whatever a Content-Length header says.
C17_BodyIsAllBytesAfterBlankLine ==
    /\ \A i \in DOMAIN io : \A j \in DOMAIN io :
          (i < j /\ io[i] = "read") => io[j] \notin {"readline", "read"}
    /\ Count(io, "readline") = 1 => rpos = Len(resp.statusline)
    /\ Count(io, "read") = 0 => rpos <= BodyStart
    /\ pc = "body" => rpos = BodyStart
    /\ pc \in {"close", "returned"} =>
          /\ rpos = Len(wire)
          /\ gunzip => GzipDecompress(resp.body) = [ok |-> TRUE, data |-> EncodeUtf8(body)]
          /\ ~gunzip => EncodeUtf8(body) = resp.body

C17_Witness ==
    /\ pc = "returned"
    /\ resp.hdrs = <<H_len>>
    /\ result.body = T_nl

\* C18: every stream operation (connect, send, read, close) is made on a
\* socket that is TLS-wrapped, with server_hostname the host of the URL,
\* exactly when the scheme is https; the wrapping never changes once a
\* stream operation was made.
C18_TlsIffHttps ==
    [][io' # io =>
          /\ s.tls <=> given.scheme = Https
          /\ s.tls => s.server_hostname = given.host
          /\ s'.tls = s.tls
          /\ s'.server_hostname = s.server_hostname]_vars

C18_Witness ==
    /\ given.scheme = Https
    /\ pc = "returned"
    /\ s.tls
    /\ s.server_hostname = <<"a",".","b">>
    /\ Count(io, "send") = 1

(***************************************************************************)
(* Properties of lex, layout and the Browser                               *)
(***************************************************************************)
\* Whether the i-th character of b is read inside a tag: some "<" before it
\* has no ">" between the two.
InsideTag(b, i) ==
    \E j \in 1..(i - 1) :
        b[j] = "<" /\ \A k \in (j + 1)..(i - 1) : b[k] # ">"

\* The characters of b that are neither "<" nor ">" and are read outside a
\* tag, in order.
OutsideTags(b) ==
    LET kept == SelectSeq([i \in 1..Len(b) |-> i],
                          LAMBDA i : b[i] \notin {"<", ">"} /\ ~InsideTag(b, i))
    IN  [k \in 1..Len(kept) |-> b[kept[k]]]

\* The offset of a "<" of b that no later ">" closes, 0 when there is none.
Unclosed(b) ==
    LET open == {j \in 1..Len(b) :
                    b[j] = "<" /\ \A k \in (j + 1)..Len(b) : b[k] # ">"}
    IN  IF open = {} THEN 0 ELSE CHOOSE j \in open : \A k \in open : j <= k

\* C14: lex keeps, in order and unchanged, exactly the characters read while
\* outside a tag, "<" opening a tag and ">" closing it (neither is kept,
\* wherever it is met); so "a<b>c</b>d" gives "acd", "<html>hi" gives "hi",
\* and everything from a "<" that is never closed on is dropped.
C14_LexKeepsTextOutsideTags ==
    /\ lex(<<"a","<","b",">","c","<","/","b",">","d">>) = <<"a","c","d">>
    /\ lex(<<"<","h","t","m","l",">","h","i">>) = <<"h","i">>
    /\ page # None /\ page.ok =>
          /\ loaded_text = OutsideTags(page.body)
          /\ Unclosed(page.body) # 0 =>
                loaded_text = OutsideTags(SubSeq(page.body, 1, Unclosed(page.body) - 1))

C14_Witness ==
    /\ last_op = "load"
    /\ page.ok
    /\ page.body = <<"x","<","y"," ","z">>
    /\ loaded_text = <<"x">>

\* C15: the scroll offset starts at 0 and stays a non-negative multiple of
\* 100; scroll_down adds exactly 100, scroll_up takes 100 away unless that
\* would go below 0, and then the offset is 0.
C15_ScrollIsNonNegativeMultipleOfStep ==
    /\ [](scroll >= 0 /\ scroll % 100 = 0)
    /\ [][/\ last_op' = "scroll_down" => scroll' = scroll + 100
          /\ last_op' = "scroll_up" =>
                scroll' = IF scroll - 100 < 0 THEN 0 ELSE scroll - 100]_vars

C15_Witness ==
    /\ last_op = "scroll_up"
    /\ scroll = 0
    /\ page # None
    /\ ~redrawn

\* The offsets of the characters of t that are not newlines, in order.
GlyphOffsets(t) == SelectSeq([i \in 1..Len(t) |-> i], LAMBDA i : t[i] # "\n")

\* Where the cursor is after the glyph d: 13 further right, or at the start
\* of the next line once that reaches 787.
CursorAfter(d) ==
    IF d.loc.x + 13 >= 787
    THEN [x |-> 13, y |-> d.loc.y + 18]
    ELSE [x |-> d.loc.x + 13, y |-> d.loc.y]

\* C19: the display list has one glyph per non-newline character of the
\* text, in order; every glyph has 13 <= x < 787, x a multiple of 13 and
\* y >= 18, y never decreasing along the list; a glyph is placed where the
\* one before left the cursor (13 further right, or x = 13 and y + 18 after
\* reaching 787), and each newline in between puts x at 13 and adds 36 to y.
C19_LayoutPositions ==
    LET at == GlyphOffsets(loaded_text)
        n  == Len(display_list)
    IN  /\ n = Len(at)
        /\ \A k \in 1..n :
              /\ display_list[k].char = loaded_text[at[k]]
              /\ 13 <= display_list[k].loc.x
              /\ display_list[k].loc.x < 800 - 13
              /\ display_list[k].loc.x % 13 = 0
              /\ display_list[k].loc.y >= 18
        /\ n > 0 =>
              display_list[1].loc = [x |-> 13, y |-> 18 + 36 * (at[1] - 1)]
        /\ \A k \in 1..(n - 1) :
              LET newlines == at[k + 1] - at[k] - 1
                  cursor   == CursorAfter(display_list[k])
              IN  /\ display_list[k + 1].loc.y >= display_list[k].loc.y
                  /\ display_list[k + 1].loc =
                        IF newlines = 0 THEN cursor
                        ELSE [x |-> 13, y |-> cursor.y + 36 * newlines]

C19_Witness ==
    /\ loaded_text = Run(60) \o <<"\n", "b">>
    /\ Len(display_list) = 61
    /\ display_list[60] = Character(780, 18, "a")
    /\ display_list[61] = Character(13, 72, "b")

\* C20: scroll_up and scroll_down leave display_list as it is; load leaves
\* the scroll offset as it is and, when request() returns, replaces
\* display_list by the layout of the new page and draws it at that offset
\* (when request() raises, display_list is left too); scroll_down always
\* draws, scroll_up draws exactly when the offset changed.
C20_FrameEffects ==
    [][/\ last_op' \in {"scroll_up", "scroll_down"} =>
             display_list' = display_list
       /\ last_op' = "load" =>
             /\ scroll' = scroll
             /\ page'.ok =>
                   /\ loaded_text' = lex(page'.body)
                   /\ display_list' = layout(loaded_text')
                   /\ redrawn'
                   /\ canvas' = DrawItems(display_list', scroll)
             /\ ~page'.ok => display_list' = display_list /\ canvas' = canvas
       /\ last_op' = "scroll_down" =>
             /\ redrawn'
             /\ canvas' = DrawItems(display_list, scroll')
       /\ last_op' = "scroll_up" =>
             /\ redrawn' <=> scroll' # scroll
             /\ redrawn' => canvas' = DrawItems(display_list, scroll')
             /\ ~redrawn' => canvas' = canvas]_vars

C20_Witness ==
    /\ last_op = "load"
    /\ scroll = 200
    /\ page.ok
    /\ page.body = [i \in 1..17 |-> "\n"] \o <<"z">>
    /\ display_list = <<Character(13, 630, "z")>>
    /\ canvas = <<[x |-> 13, y |-> 430, text |-> "z"]>>

====
